---- MODULE Spec2Model ----
(***************************************************************************)
(* pyPowerUp: the iterative sample-size solvers (sample_size.py), the      *)
(* estimators _mde and _power (utils.py) and the design wrappers' variance *)
(* and degrees-of-freedom expressions (mde.py, power.py).                  *)
(*                                                                         *)
(* Floating-point numbers are modelled as fixed-point numbers with Scale   *)
(* units per 1.0 plus the IEEE special values +inf, -inf and nan.  A       *)
(* finite magnitude above MaxFin overflows to an infinity, as a float      *)
(* does at its own (much larger) limit.  Design parameters are exact       *)
(* rationals.                                                              *)
(***************************************************************************)
EXTENDS Integers, Sequences, FiniteSets, TLC

\* ------------------------------------------------------------------------
\* Number representation
\* ------------------------------------------------------------------------

\* fixed-point units per 1.0
Scale == 10 * 10 * 10

\* largest finite magnitude, in units (200000.0)
MaxFin == 200000 * Scale

Fin(x) == [k |-> "fin", v |-> x]

PosInf == [k |-> "inf", v |-> 1]

NegInf == [k |-> "inf", v |-> -1]

NaN == [k |-> "nan", v |-> 0]

Zero == Fin(0)

IsNaN(a) == a.k = "nan"

IsInf(a) == a.k = "inf"

IsFin(a) == a.k = "fin"

Sgn(x) == IF x > 0 THEN 1 ELSE IF x < 0 THEN -1 ELSE 0

Mag(x) == IF x < 0 THEN -x ELSE x

SignedInf(s) == IF s < 0 THEN NegInf ELSE PosInf

\* a finite result, or the infinity it overflows to
Clamp(x) == IF x > MaxFin THEN PosInf ELSE IF x < -MaxFin THEN NegInf ELSE Fin(x)

FNeg(a) == IF IsNaN(a) THEN NaN ELSE [k |-> a.k, v |-> -a.v]

FAbs(a) == IF IsNaN(a) THEN NaN ELSE [k |-> a.k, v |-> Mag(a.v)]

FAdd(a, b) ==
    IF IsNaN(a) \/ IsNaN(b) THEN NaN
    ELSE IF IsInf(a) /\ IsInf(b) THEN (IF a.v = b.v THEN a ELSE NaN)
    ELSE IF IsInf(a) THEN a
    ELSE IF IsInf(b) THEN b
    ELSE Clamp(a.v + b.v)

FSub(a, b) == FAdd(a, FNeg(b))

\* product of two non-negative magnitudes, truncated to a unit; MaxFin + 1
\* when it overflows
MulMag(x, y) ==
    LET qx == x \div Scale
        rx == x % Scale
        qy == y \div Scale
        ry == y % Scale
    IN  IF qx > 0 /\ qy > (MaxFin \div Scale) \div qx THEN MaxFin + 1
        ELSE qx * qy * Scale + qx * ry + rx * qy + (rx * ry) \div Scale

FMul(a, b) ==
    IF IsNaN(a) \/ IsNaN(b) THEN NaN
    ELSE IF IsInf(a) \/ IsInf(b)
         THEN (IF a.v = 0 \/ b.v = 0 THEN NaN ELSE SignedInf(Sgn(a.v) * Sgn(b.v)))
    ELSE Clamp(Sgn(a.v) * Sgn(b.v) * MulMag(Mag(a.v), Mag(b.v)))

\* quotient of two magnitudes (y > 0), truncated to a unit, by long division
\* over the three decimal digits of Scale; MaxFin + 1 when it overflows
DivMag(x, y) ==
    LET q0 == x \div y
        r0 == x % y
        d1 == (r0 * 10) \div y
        r1 == (r0 * 10) % y
        d2 == (r1 * 10) \div y
        r2 == (r1 * 10) % y
        d3 == (r2 * 10) \div y
    IN  IF q0 > MaxFin \div Scale THEN MaxFin + 1
        ELSE q0 * Scale + d1 * 100 + d2 * 10 + d3

\* numpy float64 division: a zero divisor gives an infinity or nan, no error
FDiv(a, b) ==
    IF IsNaN(a) \/ IsNaN(b) THEN NaN
    ELSE IF IsInf(a) /\ IsInf(b) THEN NaN
    ELSE IF IsInf(a) THEN SignedInf(a.v * (IF b.v < 0 THEN -1 ELSE 1))
    ELSE IF IsInf(b) THEN Zero
    ELSE IF b.v = 0 THEN (IF a.v = 0 THEN NaN ELSE SignedInf(a.v))
    ELSE Clamp(Sgn(a.v) * Sgn(b.v) * DivMag(Mag(a.v), Mag(b.v)))

\* pow(a, 2)
FSq(a) == FMul(a, a)

\* a < b; false when either side is nan
FLt(a, b) ==
    IF IsNaN(a) \/ IsNaN(b) THEN FALSE
    ELSE IF IsInf(a) /\ IsInf(b) THEN a.v < b.v
    ELSE IF IsInf(a) THEN a.v < 0
    ELSE IF IsInf(b) THEN b.v > 0
    ELSE a.v < b.v

FGt(a, b) == FLt(b, a)

FLe(a, b) == IF IsNaN(a) \/ IsNaN(b) THEN FALSE ELSE ~ FLt(b, a)

\* (a + b) / 2
FAvg(a, b) ==
    LET s == FAdd(a, b)
    IN  IF IsFin(s) THEN Fin(s.v \div 2) ELSE s

\* an integer as a fixed-point number
FInt(m) == Clamp(m * Scale)

\* math.ceil of a finite number, as an integer
CeilUnits(x) == -((-x) \div Scale)

\* ------------------------------------------------------------------------
\* Exact rationals for the design parameters
\* ------------------------------------------------------------------------

RECURSIVE GCD(_, _)
GCD(a, b) == IF b = 0 THEN a ELSE GCD(b, a % b)

Rat(num, den) ==
    LET g == GCD(Mag(num), Mag(den))
        s == IF den < 0 THEN -1 ELSE 1
    IN  [n |-> s * (num \div g), d |-> s * (den \div g)]

RInt(m) == [n |-> m, d |-> 1]

RAdd(a, b) == Rat(a.n * b.d + b.n * a.d, a.d * b.d)

RSub(a, b) == Rat(a.n * b.d - b.n * a.d, a.d * b.d)

RMul(a, b) == Rat(a.n * b.n, a.d * b.d)

\* a / b for b # 0
RDiv(a, b) == Rat(a.n * b.d, a.d * b.n)

ROne == RInt(1)

\* the fixed-point number nearest to zero from a rational
RatToFix(a) == Clamp(Sgn(a.n) * ((Mag(a.n) * Scale) \div a.d))

\* ------------------------------------------------------------------------
\* Distribution provider: scipy.stats.t and scipy.stats.nct
\* ------------------------------------------------------------------------

\* the standard normal upper-tail quantile, for upper-tail probability q
\* (in units) of the table
ZUpper(q) ==
    CASE q = 5 -> 2576
      [] q = 10 -> 2326
      [] q = 12 -> 2241
      [] q = 25 -> 1960
      [] q = 50 -> 1645
      [] q = 100 -> 1282
      [] q = 170 -> 954
      [] q = 200 -> 842
      [] q = 340 -> 412
      [] q = 500 -> 0

\* the magnitude of the central t quantile at tail probability q and df > 0:
\* the Cornish-Fisher expansion z + (z^3+z)/(4 df) + (5z^5+16z^3+3z)/(96 df^2)
TMag(q, df) ==
    LET z == Fin(ZUpper(q))
        z2 == FMul(z, z)
        z3 == FMul(z2, z)
        z5 == FMul(z3, z2)
        c1 == FDiv(FAdd(z3, z), FInt(4))
        c2 == FDiv(FAdd(FAdd(FMul(FInt(5), z5), FMul(FInt(16), z3)),
                        FMul(FInt(3), z)), FInt(96))
    IN  FAdd(FAdd(z, FDiv(c1, df)), FDiv(FDiv(c2, df), df))

\* t_dist.ppf(q, df): nan outside the distribution's domain (df <= 0, df nan,
\* q outside [0, 1]), infinite at q = 0 and q = 1
PPF(q, df) ==
    IF IsNaN(q) \/ IsNaN(df) \/ ~ FGt(df, Zero) THEN NaN
    ELSE IF IsInf(q) \/ q.v < 0 \/ q.v > Scale THEN NaN
    ELSE IF q.v = 0 THEN NegInf
    ELSE IF q.v = Scale THEN PosInf
    ELSE IF 2 * q.v < Scale THEN FNeg(TMag(q.v, df))
    ELSE TMag(Scale - q.v, df)

\* t_dist.isf(q, df): the quantile of the upper tail, ppf(1 - q, df)
ISF(q, df) == PPF(FSub(FInt(1), q), df)

RECURSIVE SqrtIter(_, _)
\* Newton's iteration for the integer square root of n > 0, from r >= sqrt(n)
SqrtIter(n, r) ==
    LET s == (r + n \div r) \div 2
    IN  IF s >= r THEN r ELSE SqrtIter(n, s)

\* the integer square root
ISqrt(n) == IF n <= 0 THEN 0 ELSE SqrtIter(n, IF n < 46340 THEN n ELSE 46340)

\* mutant: the square root left out
SqrtRatOmitted(a) == RatToFix(a)

\* sqrt of a non-negative rational, truncated to a unit: the argument is
\* carried to a millionth so that the root is right to the last unit
SqrtRat(a) ==
    LET whole == (a.n * Scale) \div a.d
        part == (((a.n * Scale) % a.d) * Scale) \div a.d
    IN  IF a.n < 0 THEN NaN ELSE Clamp(ISqrt(whole * Scale + part))

\* the square root of a non-negative number, truncated to a unit
FSqrt(a) ==
    IF IsNaN(a) \/ FLt(a, Zero) THEN NaN
    ELSE IF IsInf(a) THEN PosInf
    ELSE IF a.v <= 2000 * Scale THEN Fin(ISqrt(a.v * Scale))
    ELSE Fin(ISqrt(a.v \div 10) * 100)

\* the standard normal distribution function at 0.0, 0.1, ..., 4.1, in
\* ten-thousandths
NormTable ==
    <<5000, 5398, 5793, 6179, 6554, 6915, 7257,
      7580, 7881, 8159, 8413, 8643, 8849, 9032,
      9192, 9332, 9452, 9554, 9641, 9713, 9772,
      9821, 9861, 9893, 9918, 9938, 9953, 9965,
      9974, 9981, 9987, 9990, 9993, 9995, 9997,
      9998, 9998, 9999, 9999, 10000, 10000, 10000>>

\* the standard normal distribution function, by linear interpolation
NormCdf(x) ==
    IF IsNaN(x) THEN NaN
    ELSE IF IsInf(x) THEN (IF x.v > 0 THEN FInt(1) ELSE Zero)
    ELSE LET m == Mag(x.v)
             i == m \div 100
             f == m % 100
             t == IF i >= 40 THEN 10000
                  ELSE (NormTable[i + 1] * (100 - f) + NormTable[i + 2] * f) \div 100
             u == (t + 5) \div 10
         IN  Fin(IF x.v >= 0 THEN u ELSE Scale - u)

\* the upper-tail probabilities of the table ZUpper
Tails == {5, 10, 12, 25, 50, 100, 170, 200, 340, 500}

\* the normal approximation of the noncentral t distribution function,
\* Phi((t (1 - 1/(4 df)) - lamda) / sqrt(1 + t^2/(2 df)))
NctNormal(t, df, lamda) ==
    LET shrink == FSub(FInt(1), FDiv(FInt(1), FMul(FInt(4), df)))
        num == FSub(FMul(t, shrink), lamda)
        den == FSqrt(FAdd(FInt(1), FDiv(FSq(t), FMul(FInt(2), df))))
    IN  NormCdf(FDiv(num, den))

\* the central t distribution function: at a quantile that ppf gives, the
\* probability of that quantile
TCdf(t, df) ==
    LET qs == {q \in Tails : TMag(q, df) = FAbs(t)}
    IN  IF qs = {} THEN NctNormal(t, df, Zero)
        ELSE LET q == CHOOSE x \in qs : TRUE
             IN  IF FLt(t, Zero) THEN Fin(q) ELSE Fin(Scale - q)

\* mutant: the noncentral distribution function mirrored in lamda
NctCdfMirrored(t, df, lamda) ==
    IF IsNaN(t) \/ IsNaN(df) \/ IsNaN(lamda) \/ ~ FGt(df, Zero) THEN NaN
    ELSE NctNormal(t, df, FNeg(lamda))

\* nct.cdf(t, df, lamda), the noncentral t distribution function: the central
\* one at lamda = 0, its normal approximation otherwise; nan outside the
\* domain df > 0
NctCdf(t, df, lamda) ==
    IF IsNaN(t) \/ IsNaN(df) \/ IsNaN(lamda) \/ ~ FGt(df, Zero) THEN NaN
    ELSE IF lamda = Zero /\ IsFin(t) THEN TCdf(t, df)
    ELSE NctNormal(t, df, lamda)

\* ------------------------------------------------------------------------
\* The 14 designs
\* ------------------------------------------------------------------------

Designs ==
    {"bcra3f2", "bcra3r2", "bcra4f3", "bcra4r2", "bcra4r3", "bira2c1", "bira2f1",
     "bira2r1", "bira3r1", "bira4r1", "cra2r2", "cra3r3", "cra4r4", "ira1r1"}

\* p * (1 - p)
PQ(a) == RMul(a.p, RSub(ROne, a.p))

\* 1 - x
Co(x) == RSub(ROne, x)

\* the residual share of variance at level 1 in a 3-level and a 4-level design
Res3(a) == RSub(RSub(ROne, a.rho3), a.rho2)

Res4(a) == RSub(RSub(RSub(ROne, a.rho4), a.rho3), a.rho2)

\* mutant: the factor (1 - p) forgotten
OverPQNoComplement(x, a, m) == RDiv(x, RMul(a.p, RInt(m)))

\* x / (p (1 - p) * m)
OverPQ(x, a, m) == RDiv(x, RMul(PQ(a), RInt(m)))

\* the variance factor of the proposal, (...) in  X1 = pow(M / effect_size, 2) * (...)
DesignVariance(d, a) ==
    CASE d = "bcra3f2" ->
           RAdd(OverPQ(RMul(a.rho2, Co(a.r22)), a, a.J),
                OverPQ(RMul(Co(a.rho2), Co(a.r21)), a, a.J * a.n))
      [] d = "bcra3r2" ->
           RAdd(RAdd(RMul(RMul(a.rho3, a.omega3), Co(a.r2t3)),
                     OverPQ(RMul(a.rho2, Co(a.r22)), a, a.J)),
                OverPQ(RMul(Res3(a), Co(a.r21)), a, a.J * a.n))
      [] d = "bcra4f3" ->
           RAdd(RAdd(OverPQ(RMul(a.rho3, Co(a.r23)), a, a.K),
                     OverPQ(RMul(a.rho2, Co(a.r22)), a, a.K * a.J)),
                OverPQ(RMul(Res3(a), Co(a.r21)), a, a.J * a.K * a.n))
      [] d = "bcra4r2" ->
           RAdd(RAdd(RAdd(RMul(RMul(a.rho4, a.omega4), Co(a.r2t4)),
                          RDiv(RMul(RMul(a.rho3, a.omega3), Co(a.r2t3)), RInt(a.K))),
                     OverPQ(RMul(a.rho2, Co(a.r22)), a, a.K * a.J)),
                OverPQ(RMul(Res4(a), Co(a.r21)), a, a.J * a.K * a.n))
      [] d = "bcra4r3" ->
           RAdd(RAdd(RAdd(RMul(RMul(a.rho4, a.omega4), Co(a.r2t4)),
                          OverPQ(RMul(a.rho3, Co(a.r23)), a, a.K)),
                     OverPQ(RMul(a.rho2, Co(a.r22)), a, a.K * a.J)),
                OverPQ(RMul(Res4(a), Co(a.r21)), a, a.K * a.J * a.n))
      [] d = "bira2c1" -> OverPQ(Co(a.r21), a, a.n)
      [] d = "bira2f1" -> OverPQ(Co(a.r21), a, a.n)
      [] d = "bira2r1" ->
           RAdd(RMul(RMul(a.rho2, a.omega2), Co(a.r2t2)),
                OverPQ(RMul(Co(a.rho2), Co(a.r21)), a, a.n))
      [] d = "bira3r1" ->
           RAdd(RAdd(RMul(RMul(a.rho3, a.omega3), Co(a.r2t3)),
                     RDiv(RMul(RMul(a.rho2, a.omega2), Co(a.r2t2)), RInt(a.J))),
                OverPQ(RMul(Res3(a), Co(a.r21)), a, a.J * a.n))
      [] d = "bira4r1" ->
           RAdd(RAdd(RAdd(RMul(RMul(a.rho4, a.omega4), Co(a.r2t4)),
                          RDiv(RMul(RMul(a.rho3, a.omega3), Co(a.r2t3)), RInt(a.K))),
                     RDiv(RMul(RMul(a.rho2, a.omega2), Co(a.r2t2)), RInt(a.K * a.J))),
                OverPQ(RMul(Res4(a), Co(a.r21)), a, a.K * a.J * a.n))
      [] d = "cra2r2" ->
           RAdd(OverPQ(RMul(a.rho2, Co(a.r22)), a, 1),
                OverPQ(RMul(Co(a.rho2), Co(a.r21)), a, a.n))
      [] d = "cra3r3" ->
           RAdd(RAdd(OverPQ(RMul(a.rho3, Co(a.r23)), a, 1),
                     OverPQ(RMul(a.rho2, Co(a.r22)), a, a.J)),
                OverPQ(RMul(Res3(a), Co(a.r21)), a, a.J * a.n))
      [] d = "cra4r4" ->
           RAdd(RAdd(RAdd(OverPQ(RMul(a.rho4, Co(a.r24)), a, 1),
                          OverPQ(RMul(a.rho3, Co(a.r23)), a, a.K)),
                     OverPQ(RMul(a.rho2, Co(a.r22)), a, a.K * a.J)),
                OverPQ(RMul(Res4(a), Co(a.r21)), a, a.J * a.K * a.n))
      [] d = "ira1r1" -> OverPQ(Co(a.r21), a, 1)

\* x / (p * (1 - p) * m), as mde.py writes it
MdeOver(x, a, m) == RDiv(x, RMul(RMul(a.p, RSub(ROne, a.p)), RInt(m)))

\* sse squared (the argument of sqrt) in mde_<design> of mde.py, with N units
\* at the level the solver solves for
MdeSseSq(d, a, N) ==
    CASE d = "bcra3f2" ->
           RAdd(MdeOver(RMul(a.rho2, Co(a.r22)), a, a.J * N),
                MdeOver(RMul(Co(a.rho2), Co(a.r21)), a, a.J * N * a.n))
      [] d = "bcra3r2" ->
           RAdd(RAdd(RDiv(RMul(RMul(a.rho3, a.omega3), Co(a.r2t3)), RInt(N)),
                     MdeOver(RMul(a.rho2, Co(a.r22)), a, a.J * N)),
                MdeOver(RMul(Res3(a), Co(a.r21)), a, a.J * N * a.n))
      [] d = "bcra4f3" ->
           RAdd(RAdd(MdeOver(RMul(a.rho3, Co(a.r23)), a, a.K * N),
                     MdeOver(RMul(a.rho2, Co(a.r22)), a, a.J * a.K * N)),
                MdeOver(RMul(Res3(a), Co(a.r21)), a, a.J * a.K * N * a.n))
      [] d = "bcra4r2" ->
           RAdd(RAdd(RAdd(RDiv(RMul(RMul(a.rho4, a.omega4), Co(a.r2t4)), RInt(N)),
                          RDiv(RMul(RMul(a.rho3, a.omega3), Co(a.r2t3)), RInt(a.K * N))),
                     MdeOver(RMul(a.rho2, Co(a.r22)), a, a.J * a.K * N)),
                MdeOver(RMul(Res4(a), Co(a.r21)), a, a.J * a.K * N * a.n))
      [] d = "bcra4r3" ->
           RAdd(RAdd(RAdd(RDiv(RMul(RMul(a.rho4, a.omega4), Co(a.r2t4)), RInt(N)),
                          MdeOver(RMul(a.rho3, Co(a.r23)), a, a.K * N)),
                     MdeOver(RMul(a.rho2, Co(a.r22)), a, a.J * a.K * N)),
                MdeOver(RMul(Res4(a), Co(a.r21)), a, a.J * a.K * N * a.n))
      [] d = "bira2c1" -> MdeOver(Co(a.r21), a, N * a.n)
      [] d = "bira2f1" -> MdeOver(Co(a.r21), a, N * a.n)
      [] d = "bira2r1" ->
           RAdd(RDiv(RMul(RMul(a.rho2, a.omega2), Co(a.r2t2)), RInt(N)),
                MdeOver(RMul(Co(a.rho2), Co(a.r21)), a, N * a.n))
      [] d = "bira3r1" ->
           RAdd(RAdd(RDiv(RMul(RMul(a.rho3, a.omega3), Co(a.r2t3)), RInt(N)),
                     RDiv(RMul(RMul(a.rho2, a.omega2), Co(a.r2t2)), RInt(a.J * N))),
                MdeOver(RMul(Res3(a), Co(a.r21)), a, a.J * N * a.n))
      [] d = "bira4r1" ->
           RAdd(RAdd(RAdd(RDiv(RMul(RMul(a.rho4, a.omega4), Co(a.r2t4)), RInt(N)),
                          RDiv(RMul(RMul(a.rho3, a.omega3), Co(a.r2t3)), RInt(a.K * N))),
                     RDiv(RMul(RMul(a.rho2, a.omega2), Co(a.r2t2)), RInt(a.J * a.K * N))),
                MdeOver(RMul(Res4(a), Co(a.r21)), a, a.J * a.K * N * a.n))
      [] d = "cra2r2" ->
           RAdd(MdeOver(RMul(a.rho2, Co(a.r22)), a, N),
                MdeOver(RMul(Co(a.rho2), Co(a.r21)), a, N * a.n))
      [] d = "cra3r3" ->
           RAdd(RAdd(MdeOver(RMul(a.rho3, Co(a.r23)), a, N),
                     MdeOver(RMul(a.rho2, Co(a.r22)), a, a.J * N)),
                MdeOver(RMul(Res3(a), Co(a.r21)), a, a.J * N * a.n))
      [] d = "cra4r4" ->
           RAdd(RAdd(RAdd(MdeOver(RMul(a.rho4, Co(a.r24)), a, N),
                          MdeOver(RMul(a.rho3, Co(a.r23)), a, a.K * N)),
                     MdeOver(RMul(a.rho2, Co(a.r22)), a, a.J * a.K * N)),
                MdeOver(RMul(Res4(a), Co(a.r21)), a, a.J * a.K * N * a.n))
      [] d = "ira1r1" -> MdeOver(Co(a.r21), a, N)

\* x / (p * (1 - p) * m), as power.py writes it
PowerOver(x, a, m) == RDiv(x, RMul(RMul(a.p, RSub(ROne, a.p)), RInt(m)))

\* sse squared (the argument of sqrt) in power_<design> of power.py, with N units
\* at the level the solver solves for
PowerSseSq(d, a, N) ==
    CASE d = "bcra3f2" ->
           RAdd(PowerOver(RMul(a.rho2, Co(a.r22)), a, a.J * N),
                PowerOver(RMul(Co(a.rho2), Co(a.r21)), a, a.J * N * a.n))
      [] d = "bcra3r2" ->
           RAdd(RAdd(RDiv(RMul(RMul(a.rho3, a.omega3), Co(a.r2t3)), RInt(N)),
                     PowerOver(RMul(a.rho2, Co(a.r22)), a, a.J * N)),
                PowerOver(RMul(Res3(a), Co(a.r21)), a, a.J * N * a.n))
      [] d = "bcra4f3" ->
           RAdd(RAdd(PowerOver(RMul(a.rho3, Co(a.r23)), a, a.K * N),
                     PowerOver(RMul(a.rho2, Co(a.r22)), a, a.J * a.K * N)),
                PowerOver(RMul(Res3(a), Co(a.r21)), a, a.J * a.K * N * a.n))
      [] d = "bcra4r2" ->
           RAdd(RAdd(RAdd(RDiv(RMul(RMul(a.rho4, a.omega4), Co(a.r2t4)), RInt(N)),
                          RDiv(RMul(RMul(a.rho3, a.omega3), Co(a.r2t3)), RInt(a.K * N))),
                     PowerOver(RMul(a.rho2, Co(a.r22)), a, a.J * a.K * N)),
                PowerOver(RMul(Res4(a), Co(a.r21)), a, a.J * a.K * N * a.n))
      [] d = "bcra4r3" ->
           RAdd(RAdd(RAdd(RDiv(RMul(RMul(a.rho4, a.omega4), Co(a.r2t4)), RInt(N)),
                          PowerOver(RMul(a.rho3, Co(a.r23)), a, a.K * N)),
                     PowerOver(RMul(a.rho2, Co(a.r22)), a, a.J * a.K * N)),
                PowerOver(RMul(Res4(a), Co(a.r21)), a, a.J * a.K * N * a.n))
      [] d = "bira2c1" -> PowerOver(Co(a.r21), a, N * a.n)
      [] d = "bira2f1" -> PowerOver(Co(a.r21), a, N * a.n)
      [] d = "bira2r1" ->
           RAdd(RDiv(RMul(RMul(a.rho2, a.omega2), Co(a.r2t2)), RInt(N)),
                PowerOver(RMul(Co(a.rho2), Co(a.r21)), a, N * a.n))
      [] d = "bira3r1" ->
           RAdd(RAdd(RDiv(RMul(RMul(a.rho3, a.omega3), Co(a.r2t3)), RInt(N)),
                     RDiv(RMul(RMul(a.rho2, a.omega2), Co(a.r2t2)), RInt(a.J * N))),
                PowerOver(RMul(Res3(a), Co(a.r21)), a, a.J * N * a.n))
      [] d = "bira4r1" ->
           RAdd(RAdd(RAdd(RDiv(RMul(RMul(a.rho4, a.omega4), Co(a.r2t4)), RInt(N)),
                          RDiv(RMul(RMul(a.rho3, a.omega3), Co(a.r2t3)), RInt(a.K * N))),
                     RDiv(RMul(RMul(a.rho2, a.omega2), Co(a.r2t2)), RInt(a.J * a.K * N))),
                PowerOver(RMul(Res4(a), Co(a.r21)), a, a.J * a.K * N * a.n))
      [] d = "cra2r2" ->
           RAdd(PowerOver(RMul(a.rho2, Co(a.r22)), a, N),
                PowerOver(RMul(Co(a.rho2), Co(a.r21)), a, N * a.n))
      [] d = "cra3r3" ->
           RAdd(RAdd(PowerOver(RMul(a.rho3, Co(a.r23)), a, N),
                     PowerOver(RMul(a.rho2, Co(a.r22)), a, a.J * N)),
                PowerOver(RMul(Res3(a), Co(a.r21)), a, a.J * N * a.n))
      [] d = "cra4r4" ->
           RAdd(RAdd(RAdd(PowerOver(RMul(a.rho4, Co(a.r24)), a, N),
                          PowerOver(RMul(a.rho3, Co(a.r23)), a, a.K * N)),
                     PowerOver(RMul(a.rho2, Co(a.r22)), a, a.J * a.K * N)),
                PowerOver(RMul(Res4(a), Co(a.r21)), a, a.J * a.K * N * a.n))
      [] d = "ira1r1" -> PowerOver(Co(a.r21), a, N)

\* df as mde_<design> computes it from N units, an integer, at the level the
\* solver solves for; ceil leaves an integer as it is
MdeDf(d, a, N) ==
    CASE d = "bcra3f2" -> FInt(N * (a.J - 2) - a.g)
      [] d = "bcra4f3" -> FInt(N * (a.K - 2) - a.g)
      [] d = "bira2c1" -> FInt(N * (a.n - 1) - a.g - 1)
      [] d = "bira2f1" -> FInt(N * (a.n - 2) - a.g)
      [] d \in {"bcra3r2", "bcra4r2", "bcra4r3", "bira2r1", "bira3r1", "bira4r1"} ->
           FInt(N - a.g - 1)
      [] d \in {"cra2r2", "cra3r3", "cra4r4", "ira1r1"} -> FInt(N - a.g - 2)

\* mutant: one estimated parameter fewer in every design
PowerDfOneLess(d, a, N) == FInt(N - a.g - 1)

\* df as power_<design> computes it from N units, an integer, at the level the
\* solver solves for; ceil leaves an integer as it is
PowerDf(d, a, N) ==
    CASE d = "bcra3f2" -> FInt(N * (a.J - 2) - a.g)
      [] d \in {"bcra3r2", "bira3r1"} -> FInt(N - a.g - 1)
      [] d = "bcra4f3" -> FInt(N * (a.K - 2) - a.g)
      [] d \in {"bcra4r2", "bcra4r3", "bira4r1"} -> FInt(N - a.g - 1)
      [] d = "bira2c1" -> FInt(N * (a.n - 1) - a.g - 1)
      [] d = "bira2f1" -> FInt(N * (a.n - 2) - a.g)
      [] d = "bira2r1" -> FInt(N - a.g - 1)
      [] d = "cra2r2" -> FInt(N - a.g - 2)
      [] d \in {"cra3r3", "cra4r4"} -> FInt(N - a.g - 2)
      [] d = "ira1r1" -> FInt(N - a.g - 2)

\* df as the solver computes it from the current guess x0
SolverDf(d, a, x0) ==
    CASE d = "bcra3f2" -> FSub(FMul(x0, FInt(a.J - 2)), FInt(a.g))
      [] d = "bcra4f3" -> FSub(FMul(x0, FInt(a.K - 2)), FInt(a.g))
      [] d = "bira2c1" -> FSub(FSub(FMul(x0, FInt(a.n - 1)), FInt(a.g)), FInt(1))
      [] d = "bira2f1" -> FSub(FMul(x0, FInt(a.n - 2)), FInt(a.g))
      [] d \in {"bcra3r2", "bcra4r2", "bcra4r3", "bira2r1", "bira3r1", "bira4r1", "ira1r1"} ->
           FSub(FSub(x0, FInt(a.g)), FInt(1))
      [] d \in {"cra2r2", "cra3r3", "cra4r4"} ->
           FSub(FSub(x0, FInt(a.g)), FInt(2))

\* ------------------------------------------------------------------------
\* Inputs
\* ------------------------------------------------------------------------

\* range(100): the iteration budget of every solver
MaxIter == 100

\* the default initial guess (K0, J0, L0, n0 = 10)
DefaultGuess == 10

\* the default tolerance, 0.10, in units
DefaultTol == 100

\* covariate counts g run over 0 .. MaxG
MaxG == 2

\* unit counts n, J, K are 2 or MaxUnits
MaxUnits == 4

\* the arguments of a call with every default in place
Base ==
    [n |-> MaxUnits, J |-> MaxUnits, K |-> MaxUnits,
     rho2 |-> Rat(1, 10), rho3 |-> Rat(1, 10), rho4 |-> Rat(1, 20),
     omega2 |-> Rat(1, 2), omega3 |-> Rat(1, 2), omega4 |-> Rat(1, 2),
     r21 |-> RInt(0), r22 |-> RInt(0), r23 |-> RInt(0), r24 |-> RInt(0),
     r2t2 |-> RInt(0), r2t3 |-> RInt(0), r2t4 |-> RInt(0),
     p |-> Rat(1, 2), g |-> 0,
     effect_size |-> Fin(250), power |-> Fin(800), alpha |-> Fin(50),
     two_tailed |-> TRUE, x0 |-> FInt(DefaultGuess), tol |-> Fin(DefaultTol),
     print_pretty |-> TRUE, sse |-> Zero, df |-> Zero, N |-> 0]

\* every R-squared set to r
WithR2(a, r) ==
    [a EXCEPT !.r21 = r, !.r22 = r, !.r23 = r, !.r24 = r,
              !.r2t2 = r, !.r2t3 = r, !.r2t4 = r]

\* every unit count set to u
WithUnits(a, u) == [a EXCEPT !.n = u, !.J = u, !.K = u]

EffectSizes == {Zero, Fin(250), Fin(500)}

\* calls that vary the start of the iteration and its stopping rule
DynamicsInputs ==
    {[Base EXCEPT !.x0 = FInt(x), !.g = g, !.effect_size = es, !.tol = t] :
        x \in {0, 2, DefaultGuess}, g \in 0 .. MaxG, es \in EffectSizes,
        t \in {Zero, Fin(DefaultTol)}}

\* calls that vary the test
TestInputs ==
    {[Base EXCEPT !.power = Fin(pw), !.two_tailed = tt, !.print_pretty = pp] :
        pw \in {800, 500, 200, 50, 10}, tt \in BOOLEAN, pp \in BOOLEAN}

\* calls that vary the design: unit counts, explained variance, assignment
\* probability
DesignInputs ==
    {[WithUnits(WithR2(Base, r), u) EXCEPT !.p = pr, !.effect_size = es] :
        r \in {RInt(0), RInt(1)}, u \in {2, MaxUnits}, pr \in {Rat(1, 2), Rat(1, 4)},
        es \in {Zero, Fin(250)}}

\* a call with a very large effect size, where the guess falls towards the
\* covariate count and is thrown back up by the quantile at a small df
UnsettledInputs == {[Base EXCEPT !.effect_size = Fin(46923), !.x0 = FInt(8)]}

SolverInputs == DynamicsInputs \cup TestInputs \cup DesignInputs \cup UnsettledInputs

\* direct calls of _mde(power, alpha, sse, df, two_tailed)
MdeInputs ==
    {[Base EXCEPT !.power = Fin(pw), !.alpha = Fin(al), !.two_tailed = tt,
                  !.sse = Fin(sse), !.df = Fin(dfv)] :
        pw \in {800, 500, 200, 25, 10}, al \in {50, 100, 25, 340}, tt \in BOOLEAN,
        sse \in {-10, 0, 51, 500},
        dfv \in {-Scale, 0, Scale \div 2, Scale, 10 * Scale, 210 * Scale}}

\* direct calls of _power(effect_size, alpha, sse, df, two_tailed)
PowerInputs ==
    {[Base EXCEPT !.effect_size = Fin(es), !.alpha = Fin(al), !.two_tailed = tt,
                  !.sse = Fin(sse), !.df = Fin(dfv)] :
        es \in {-1400, -250, 0, 250, 1400}, al \in {50, 100}, tt \in BOOLEAN,
        sse \in {-10, 0, 51, 500},
        dfv \in {-Scale, 0, Scale \div 2, Scale, 10 * Scale, 30 * Scale, 210 * Scale}}

\* unit counts N given to mde_<design> and power_<design>
WrapperUnits == {2, 5, 16}

\* calls of mde_<design> and power_<design> with N units at the level the
\* solver solves for
WrapperInputs ==
    {[Base EXCEPT !.N = u, !.g = g, !.alpha = Fin(al), !.two_tailed = tt] :
        u \in WrapperUnits, g \in {0, MaxG}, al \in {50, 100}, tt \in BOOLEAN}

\* ------------------------------------------------------------------------
\* State
\* ------------------------------------------------------------------------

VARIABLES
    call,         \* "sample_size", "mde_design", "power_design", "mde" or "power"
    design,       \* the design of a sample_size_<design> or mde_<design> call
    args,         \* the arguments of the call
    pc,           \* "loop", "after" (the statements after the loop), "done"
    rounds,       \* loop iterations begun
    n0,           \* the current guess (K0, J0, L0 or n0 in the source)
    n1,           \* the last proposal (K1, J1, L1 or n1)
    df,
    zeroDf,       \* history: some iteration computed df = 0
    T1,
    T2,
    M,
    exit,         \* how the loop was left
    outcome,      \* "pending", "None", "int", "dict", "float" or "raise"
    sample_size,  \* the integer returned when outcome = "int"
    err,          \* the exception raised when outcome = "raise"
    mde,          \* the dictionary _mde returns when outcome = "dict"
    power_out,    \* the number _power returns (its local power) when outcome = "float"
    ci_pct,       \* the <pct> of the key "<pct>% Confidence Interval" of the dictionary
    printed,      \* whether the result line was printed
    other,        \* a second caller's sample_size_<design> call: its arguments and locals
    caller        \* the wrapper that called the running _mde or _power, or "none"

vars ==
    <<call, design, args, pc, rounds, n0, n1, df, zeroDf, T1, T2, M, exit, outcome,
      sample_size, err, mde, power_out, ci_pct, printed, other, caller>>

\* a local that has not been assigned yet
Unset == [k |-> "unset", v |-> 0]

NoDict == [minimum_detectable_effect |-> Unset, lower_bound |-> Unset, upper_bound |-> Unset]

\* no dictionary, no key
NoKey == 0 - 1

\* mutant: the guess starts from the unit count an earlier call was given
InitialGuessLeftOver(a) == IF a.N > 0 THEN FInt(a.N) ELSE a.x0

\* the guess at entry is the parameter n0 (K0, J0, L0) of this call
InitialGuess(a) == a.x0

InitSolver ==
    /\ call = "sample_size"
    /\ design \in Designs
    /\ args \in SolverInputs
    /\ pc = "loop"
    /\ n0 = InitialGuess(args)
    /\ df = Zero

InitMde ==
    /\ call = "mde"
    /\ design = "none"
    /\ args \in MdeInputs
    /\ pc = "call"
    /\ n0 = Unset
    /\ df = args.df

InitPower ==
    /\ call = "power"
    /\ design = "none"
    /\ args \in PowerInputs
    /\ pc = "call"
    /\ n0 = Unset
    /\ df = args.df

InitWrapper ==
    /\ call \in {"mde_design", "power_design"}
    /\ design \in Designs
    /\ args \in WrapperInputs
    /\ pc = "call"
    /\ n0 = Unset
    /\ df = Zero

\* no second caller
NoCall == [pc |-> "idle"]

\* the locals of a call before its first statement
InitLocals ==
    /\ rounds = 0
    /\ zeroDf = FALSE
    /\ n1 = Unset
    /\ T1 = Unset
    /\ T2 = Unset
    /\ M = Unset
    /\ exit = "none"
    /\ outcome = "pending"
    /\ sample_size = 0
    /\ err = "none"
    /\ mde = NoDict
    /\ power_out = Unset
    /\ ci_pct = NoKey
    /\ printed = FALSE
    /\ caller = "none"

Init ==
    /\ InitSolver \/ InitMde \/ InitPower \/ InitWrapper
    /\ InitLocals
    /\ other = NoCall

\* ------------------------------------------------------------------------
\* The statements of a solver (the same in each of the 14 functions)
\* ------------------------------------------------------------------------

\* if df < 0 or np.isinf(df): break
DfFails(dfv) == FLt(dfv, Zero) \/ IsInf(dfv)

\* T1 = abs(t_dist.ppf(alpha / 2, df)) if two_tailed else abs(t_dist.ppf(alpha, df))
RejectionT(alpha, two_tailed, dfv) ==
    IF two_tailed THEN FAbs(PPF(FDiv(alpha, FInt(2)), dfv)) ELSE FAbs(PPF(alpha, dfv))

\* T2 = abs(t_dist.ppf(power, df))
PowerT(power, dfv) == FAbs(PPF(power, dfv))

\* mutant: the sum on both sides of power = 0.5
CombinedAlwaysSum(power, t1, t2) == FAdd(t1, t2)

\* M = T1 + T2 if power >= 0.5 else T1 - T2
Combined(power, t1, t2) ==
    IF FLe(Fin(Scale \div 2), power) THEN FAdd(t1, t2) ELSE FSub(t1, t2)

\* X1 = pow(M / effect_size, 2) * (design variance)
Proposal(d, a, m) ==
    FMul(FSq(FDiv(m, a.effect_size)), RatToFix(DesignVariance(d, a)))

\* mutant: the test written with <=
ConvergedInclusive(x1, x0, tol) == FLe(FAbs(FSub(x1, x0)), tol)

\* if abs(X1 - X0) < tol: break
Converged(x1, x0, tol) == FLt(FAbs(FSub(x1, x0)), tol)

\* mutant: the raw update X0 = X1
DampedRaw(x1, x0) == x1

\* mutant: a sign slip, X0 = (X1 - X0) / 2
DampedDifference(x1, x0) ==
    LET s == FSub(x1, x0)
    IN  IF IsFin(s) THEN Fin(s.v \div 2) ELSE s

\* X0 = (X1 + X0) / 2
Damped(x1, x0) == FAvg(x1, x0)

\* mutant: the test written as  not df < 0, which nan passes
HasSolutionNotNegative(dfv) == ~ FLt(dfv, Zero)

\* the condition of  sample_size = ceil(X0) if df > 0 else None
HasSolution(dfv) == FGt(dfv, Zero)

\* math.ceil raises OverflowError on an infinity and ValueError on nan
CeilRaises(x) == ~ IsFin(x)

CeilError(x) == IF IsInf(x) THEN "OverflowError" ELSE "ValueError"

\* the result line is printed under print_pretty; sample_size_bira2f1 prints
\* it unconditionally and sample_size_bcra4r3 has no print statement
Prints(d, a) ==
    CASE d = "bira2f1" -> TRUE
      [] d = "bcra4r3" -> FALSE
      [] OTHER -> a.print_pretty

\* mutant: one iteration too many, range(101)
LoopBudgetLong(r) == r <= MaxIter

\* mutant: one iteration too few, range(99)
LoopBudgetShort(r) == r < MaxIter - 1

\* for i in range(100): another iteration is left after r iterations
LoopBudget(r) == r < MaxIter

InLoop == call = "sample_size" /\ pc = "loop" /\ LoopBudget(rounds)

Frame == UNCHANGED <<call, design, args, power_out, ci_pct, other, caller>>

\* the df of this iteration enters the history
NoteDf(dfv) == zeroDf' = (zeroDf \/ dfv = Zero)

\* an iteration that stops at the df check
DfBreak(dfv) ==
    /\ DfFails(dfv)
    /\ df' = dfv
    /\ NoteDf(dfv)
    /\ rounds' = rounds + 1
    /\ pc' = "after"
    /\ exit' = "dfcheck"
    /\ Frame
    /\ UNCHANGED <<n0, n1, T1, T2, M, outcome, sample_size, err, mde, printed>>

\* an iteration that stops at the convergence test
Converge(dfv, t1, t2, m) ==
    /\ ~ DfFails(dfv)
    /\ LET x1 == Proposal(design, args, m)
       IN  /\ Converged(x1, n0, args.tol)
           /\ n1' = x1
    /\ df' = dfv
    /\ NoteDf(dfv)
    /\ T1' = t1
    /\ T2' = t2
    /\ M' = m
    /\ rounds' = rounds + 1
    /\ pc' = "after"
    /\ exit' = "converged"
    /\ Frame
    /\ UNCHANGED <<n0, outcome, sample_size, err, mde, printed>>

\* an iteration that runs to the damping update
Damp(dfv, t1, t2, m) ==
    /\ ~ DfFails(dfv)
    /\ LET x1 == Proposal(design, args, m)
       IN  /\ ~ Converged(x1, n0, args.tol)
           /\ n1' = x1
           /\ n0' = Damped(x1, n0)
    /\ df' = dfv
    /\ NoteDf(dfv)
    /\ T1' = t1
    /\ T2' = t2
    /\ M' = m
    /\ rounds' = rounds + 1
    /\ Frame
    /\ UNCHANGED <<pc, exit, outcome, sample_size, err, mde, printed>>

\* one pass through the loop body, from the current guess
Iterate ==
    /\ InLoop
    /\ LET dfv == SolverDf(design, args, n0)
           t1 == RejectionT(args.alpha, args.two_tailed, dfv)
           t2 == PowerT(args.power, dfv)
           m == Combined(args.power, t1, t2)
       IN  \/ DfBreak(dfv)
           \/ Converge(dfv, t1, t2, m)
           \/ Damp(dfv, t1, t2, m)

\* range(100) is used up
Exhaust ==
    /\ call = "sample_size"
    /\ pc = "loop"
    /\ ~ LoopBudget(rounds)
    /\ pc' = "after"
    /\ exit' = "exhausted"
    /\ Frame
    /\ UNCHANGED <<rounds, n0, n1, df, zeroDf, T1, T2, M, outcome, sample_size, err, mde, printed>>

\* sample_size = ceil(X0) if df > 0 else None; print; return
Finish ==
    /\ call = "sample_size"
    /\ pc = "after"
    /\ pc' = "done"
    /\ IF HasSolution(df)
       THEN IF CeilRaises(n0)
            THEN outcome' = "raise" /\ err' = CeilError(n0)
                 /\ UNCHANGED <<sample_size, printed>>
            ELSE outcome' = "int" /\ sample_size' = CeilUnits(n0.v)
                 /\ printed' = Prints(design, args) /\ UNCHANGED err
       ELSE outcome' = "None" /\ printed' = Prints(design, args)
            /\ UNCHANGED <<sample_size, err>>
    /\ Frame
    /\ UNCHANGED <<rounds, n0, n1, df, zeroDf, T1, T2, M, exit, mde>>

RECURSIVE SolverLoop(_, _, _, _, _)
\* the loop of sample_size_<design> run from guess x0 with r iterations begun
\* and dfv the df last computed: the guess and the df it is left with
SolverLoop(d, a, x0, dfv, r) ==
    IF ~ LoopBudget(r) THEN [x |-> x0, df |-> dfv]
    ELSE LET dfn == SolverDf(d, a, x0)
             t1 == RejectionT(a.alpha, a.two_tailed, dfn)
             t2 == PowerT(a.power, dfn)
             m == Combined(a.power, t1, t2)
             x1 == Proposal(d, a, m)
         IN  IF DfFails(dfn) THEN [x |-> x0, df |-> dfn]
             ELSE IF Converged(x1, x0, a.tol) THEN [x |-> x0, df |-> dfn]
             ELSE SolverLoop(d, a, Damped(x1, x0), dfn, r + 1)

\* sample_size_<design>(**a) as a function of its arguments: what the call
\* gives back
SampleSize(d, a) ==
    LET e == SolverLoop(d, a, a.x0, Zero, 0)
    IN  IF HasSolution(e.df)
        THEN IF CeilRaises(e.x) THEN [outcome |-> "raise", value |-> 0, err |-> CeilError(e.x)]
             ELSE [outcome |-> "int", value |-> CeilUnits(e.x.v), err |-> "none"]
        ELSE [outcome |-> "None", value |-> 0, err |-> "none"]

\* ------------------------------------------------------------------------
\* _mde
\* ------------------------------------------------------------------------

\* if sse < 0: raise ValueError
SseInvalid(sse) == FLt(sse, Zero)

\* mutant: the check written as df < 0
DfInvalidNegative(dfv) == FLt(dfv, Zero)

\* if df < 1: raise ValueError
DfInvalid(dfv) == FLt(dfv, FInt(1))

\* mutant: the interval scaled by t2 / m
MdeDictPowerRatio(a) ==
    LET t1 == RejectionT(a.alpha, a.two_tailed, a.df)
        t2 == PowerT(a.power, a.df)
        m == Combined(a.power, t1, t2)
        e == FMul(m, a.sse)
    IN  [minimum_detectable_effect |-> e,
         lower_bound |-> FMul(e, FSub(FInt(1), FDiv(t2, m))),
         upper_bound |-> FMul(e, FAdd(FInt(1), FDiv(t2, m)))]

\* mutant: a ratio interval, mde / (1 + t1 / m) to mde * (1 + t1 / m)
MdeDictRatioInterval(a) ==
    LET t1 == RejectionT(a.alpha, a.two_tailed, a.df)
        t2 == PowerT(a.power, a.df)
        m == Combined(a.power, t1, t2)
        e == FMul(m, a.sse)
    IN  [minimum_detectable_effect |-> e,
         lower_bound |-> FDiv(e, FAdd(FInt(1), FDiv(t1, m))),
         upper_bound |-> FMul(e, FAdd(FInt(1), FDiv(t1, m)))]

\* mde = m * sse and the interval around it
MdeDict(a) ==
    LET t1 == RejectionT(a.alpha, a.two_tailed, a.df)
        t2 == PowerT(a.power, a.df)
        m == Combined(a.power, t1, t2)
        e == FMul(m, a.sse)
    IN  [minimum_detectable_effect |-> e,
         lower_bound |-> FMul(e, FSub(FInt(1), FDiv(t1, m))),
         upper_bound |-> FMul(e, FAdd(FInt(1), FDiv(t1, m)))]

\* the thousandths m ending in 5 for which round(m / 1000, 2) goes up: the
\* binary float nearest to m / 1000 lies above the decimal tie
TiesRoundedUp ==
    {5, 25, 35, 55, 65, 85, 95, 115, 135, 165, 195, 225, 255, 265, 275, 315, 325,
     335, 375, 385, 395, 405, 445, 455, 465, 505, 515, 525, 535, 545, 555, 635,
     645, 655, 665, 675, 685, 755, 765, 775, 785, 795, 805, 875, 885, 895, 905,
     915, 925, 935}

\* round(alpha, 2), in hundredths, of a float alpha given in units
RoundHundredths(m) ==
    IF m % 10 = 5 /\ m \notin TiesRoundedUp THEN (m - 5) \div 10 ELSE (m + 5) \div 10

\* the hundredths k for which the float (1 - k / 100) * 100 falls just below
\* the integer 100 - k, so that int() gives 99 - k
TruncatedBelow == {34, 55, 56, 67, 68, 78, 79, 80, 81, 89, 90, 91, 92, 93}

\* int((1 - round(alpha, 2)) * 100)
ConfidencePct(alpha) ==
    LET k == RoundHundredths(alpha.v)
    IN  IF k \in TruncatedBelow THEN 99 - k ELSE 100 - k

InMde == call = "mde" /\ pc = "call"

MdeFrame ==
    UNCHANGED <<call, design, args, rounds, n0, n1, df, zeroDf, exit, sample_size, power_out,
                printed, other, caller>>

MdeRaiseSse ==
    /\ InMde
    /\ SseInvalid(args.sse)
    /\ pc' = "done"
    /\ outcome' = "raise"
    /\ err' = "ValueError"
    /\ MdeFrame
    /\ UNCHANGED <<T1, T2, M, mde, ci_pct>>

MdeRaiseDf ==
    /\ InMde
    /\ ~ SseInvalid(args.sse)
    /\ DfInvalid(args.df)
    /\ pc' = "done"
    /\ outcome' = "raise"
    /\ err' = "ValueError"
    /\ MdeFrame
    /\ UNCHANGED <<T1, T2, M, mde, ci_pct>>

MdeReturn ==
    /\ InMde
    /\ ~ SseInvalid(args.sse)
    /\ ~ DfInvalid(args.df)
    /\ T1' = RejectionT(args.alpha, args.two_tailed, args.df)
    /\ T2' = PowerT(args.power, args.df)
    /\ M' = Combined(args.power, T1', T2')
    /\ mde' = MdeDict(args)
    /\ ci_pct' = ConfidencePct(args.alpha)
    /\ pc' = "done"
    /\ outcome' = "dict"
    /\ MdeFrame
    /\ UNCHANGED err

\* mde_<design>: df and sse from the design, then the call of _mde
MdeDesign ==
    /\ call = "mde_design"
    /\ pc = "call"
    /\ LET dfv == MdeDf(design, args, args.N)
           sse == SqrtRat(MdeSseSq(design, args, args.N))
       IN  /\ args' = [args EXCEPT !.sse = sse, !.df = dfv]
           /\ df' = dfv
    /\ call' = "mde"
    /\ caller' = "mde_design"
    /\ UNCHANGED <<design, pc, rounds, n0, n1, zeroDf, T1, T2, M, exit, outcome,
                   sample_size, err, mde, power_out, ci_pct, printed, other>>

\* mutant: the lines after the call of the core routine run whatever it did
CoreReturnedAlways(o) == TRUE

\* the statements after  mde = _mde(...)  or  power = _power(...)  run when
\* the core routine returned; an exception leaves the wrapper at the call
CoreReturned(o) == o \in {"dict", "float"}

\* mde_<design> after _mde: if print_pretty: print(str_print); return mde
MdeDesignReturn ==
    /\ call = "mde"
    /\ caller = "mde_design"
    /\ pc = "done"
    /\ CoreReturned(outcome)
    /\ printed' = args.print_pretty
    /\ call' = "mde_design"
    /\ caller' = "none"
    /\ UNCHANGED <<design, args, pc, rounds, n0, n1, df, zeroDf, T1, T2, M, exit, outcome,
                   sample_size, err, mde, power_out, ci_pct, other>>

\* ------------------------------------------------------------------------
\* _power
\* ------------------------------------------------------------------------

\* mutant: the sse check left out
PowerSseInvalidNever(sse) == FALSE

\* if sse < 0: raise ValueError
PowerSseInvalid(sse) == FLt(sse, Zero)

\* if df < 1: raise ValueError
PowerDfInvalid(dfv) == FLt(dfv, FInt(1))

\* mutant: numpy division, which gives an infinity or nan for a zero divisor
DivisionRaisesNever(x, y) == FALSE

\* lamda = effect_size / sse on Python floats: a zero divisor raises
\* ZeroDivisionError
DivisionRaises(x, y) == y = Zero

\* mutant: the two-tailed rejection region taken at alpha, not alpha / 2
PowerValueFullAlpha(a) ==
    LET lamda == FDiv(a.effect_size, a.sse)
        c == ISF(a.alpha, a.df)
    IN  IF a.two_tailed
        THEN FAdd(FSub(FInt(1), NctCdf(c, a.df, lamda)), NctCdf(FNeg(c), a.df, lamda))
        ELSE FSub(FInt(1), NctCdf(c, a.df, lamda))

\* power = 1 - nct.cdf(isf(alpha / 2)) + nct.cdf(-isf(alpha / 2)) if two_tailed,
\* else 1 - nct.cdf(isf(alpha))
PowerValue(a) ==
    LET lamda == FDiv(a.effect_size, a.sse)
    IN  IF a.two_tailed
        THEN LET c == ISF(FDiv(a.alpha, FInt(2)), a.df)
             IN  FAdd(FSub(FInt(1), NctCdf(c, a.df, lamda)), NctCdf(FNeg(c), a.df, lamda))
        ELSE FSub(FInt(1), NctCdf(ISF(a.alpha, a.df), a.df, lamda))

InPower == call = "power" /\ pc = "call"

PowerFrame ==
    UNCHANGED <<call, design, args, rounds, n0, n1, df, zeroDf, T1, T2, M, exit,
                sample_size, mde, ci_pct, printed, other, caller>>

PowerRaiseSse ==
    /\ InPower
    /\ PowerSseInvalid(args.sse)
    /\ pc' = "done"
    /\ outcome' = "raise"
    /\ err' = "ValueError"
    /\ PowerFrame
    /\ UNCHANGED power_out

PowerRaiseDf ==
    /\ InPower
    /\ ~ PowerSseInvalid(args.sse)
    /\ PowerDfInvalid(args.df)
    /\ pc' = "done"
    /\ outcome' = "raise"
    /\ err' = "ValueError"
    /\ PowerFrame
    /\ UNCHANGED power_out

PowerRaiseDivision ==
    /\ InPower
    /\ ~ PowerSseInvalid(args.sse)
    /\ ~ PowerDfInvalid(args.df)
    /\ DivisionRaises(args.effect_size, args.sse)
    /\ pc' = "done"
    /\ outcome' = "raise"
    /\ err' = "ZeroDivisionError"
    /\ PowerFrame
    /\ UNCHANGED power_out

PowerReturn ==
    /\ InPower
    /\ ~ PowerSseInvalid(args.sse)
    /\ ~ PowerDfInvalid(args.df)
    /\ ~ DivisionRaises(args.effect_size, args.sse)
    /\ power_out' = PowerValue(args)
    /\ pc' = "done"
    /\ outcome' = "float"
    /\ PowerFrame
    /\ UNCHANGED err

\* ------------------------------------------------------------------------
\* Compositions the tests exercise
\* ------------------------------------------------------------------------

\* power(mde(power0, ...).minimum_detectable_effect, alpha, sse, df,
\* two_tailed): _power is called at the effect size a finished _mde call
\* reported, with the same alpha, sse, df and tail mode; args.power keeps
\* power0 and mde keeps the dictionary
PowerOfMde ==
    /\ (call = "mde" /\ caller = "none") \/ call = "mde_design"
    /\ pc = "done"
    /\ outcome = "dict"
    /\ call' = "power"
    /\ printed' = FALSE
    /\ pc' = "call"
    /\ outcome' = "pending"
    /\ args' = [args EXCEPT !.effect_size = mde.minimum_detectable_effect]
    /\ UNCHANGED <<design, rounds, n0, n1, df, zeroDf, T1, T2, M, exit, sample_size,
                   err, mde, power_out, ci_pct, other, caller>>

\* sample_size_<design>(effect_size = mde_<design>(N)["minimum_detectable_effect"]):
\* the solver is called at the effect size a finished mde_<design> call
\* reported, with the same design, power, alpha and tail mode, the default
\* initial guess and tolerance; args.N keeps N and mde keeps the dictionary
SampleSizeOfMde ==
    /\ call = "mde_design"
    /\ pc = "done"
    /\ outcome = "dict"
    /\ call' = "sample_size"
    /\ printed' = FALSE
    /\ pc' = "loop"
    /\ outcome' = "pending"
    /\ args' = [args EXCEPT !.effect_size = mde.minimum_detectable_effect]
    /\ n0' = InitialGuess(args)
    /\ df' = Zero
    /\ UNCHANGED <<design, rounds, n1, zeroDf, T1, T2, M, exit, sample_size, err, mde,
                   power_out, ci_pct, other, caller>>

\* power_<design>: df and sse from the design, then the call of _power
PowerDesign ==
    /\ call = "power_design"
    /\ pc = "call"
    /\ LET dfv == PowerDf(design, args, args.N)
           sse == SqrtRat(PowerSseSq(design, args, args.N))
       IN  /\ args' = [args EXCEPT !.sse = sse, !.df = dfv]
           /\ df' = dfv
    /\ call' = "power"
    /\ caller' = "power_design"
    /\ UNCHANGED <<design, pc, rounds, n0, n1, zeroDf, T1, T2, M, exit, outcome,
                   sample_size, err, mde, power_out, ci_pct, printed, other>>

\* power_<design> after _power: if print_pretty: print(str_print); return power
PowerDesignReturn ==
    /\ call = "power"
    /\ caller = "power_design"
    /\ pc = "done"
    /\ CoreReturned(outcome)
    /\ printed' = args.print_pretty
    /\ call' = "power_design"
    /\ caller' = "none"
    /\ UNCHANGED <<design, args, pc, rounds, n0, n1, df, zeroDf, T1, T2, M, exit, outcome,
                   sample_size, err, mde, power_out, ci_pct, other>>

Next ==
    \/ Iterate
    \/ Exhaust
    \/ Finish
    \/ MdeRaiseSse
    \/ MdeRaiseDf
    \/ MdeReturn
    \/ PowerRaiseSse
    \/ PowerRaiseDf
    \/ PowerRaiseDivision
    \/ PowerReturn
    \/ PowerOfMde
    \/ MdeDesign
    \/ SampleSizeOfMde
    \/ MdeDesignReturn
    \/ PowerDesign
    \/ PowerDesignReturn

Spec == Init /\ [][Next]_vars

\* ------------------------------------------------------------------------
\* Two callers
\* ------------------------------------------------------------------------

\* _mde(power, alpha, sse, df, two_tailed) as a function of its arguments: what
\* the call gives back
Mde(a) ==
    IF SseInvalid(a.sse) \/ DfInvalid(a.df)
    THEN [outcome |-> "raise", value |-> NoDict, err |-> "ValueError"]
    ELSE [outcome |-> "dict", value |-> MdeDict(a), err |-> "none"]

\* _power(effect_size, alpha, sse, df, two_tailed) as a function of its
\* arguments
Power(a) ==
    IF PowerSseInvalid(a.sse) \/ PowerDfInvalid(a.df)
    THEN [outcome |-> "raise", value |-> Unset, err |-> "ValueError"]
    ELSE IF DivisionRaises(a.effect_size, a.sse)
    THEN [outcome |-> "raise", value |-> Unset, err |-> "ZeroDivisionError"]
    ELSE [outcome |-> "float", value |-> PowerValue(a), err |-> "none"]

\* the sample_size_<design> calls of the second caller, before their first
\* statement
OtherCalls ==
    {[design |-> d, args |-> a, pc |-> "loop", rounds |-> 0, n0 |-> a.x0, df |-> Zero,
      result |-> [outcome |-> "pending", value |-> 0, err |-> "none"]] :
        d \in {"ira1r1", "cra2r2"}, a \in {Base, [Base EXCEPT !.effect_size = Fin(500)]}}

\* mutant: the guess kept in a module-level variable that every call writes
GuessShared(o) == IF IsFin(n0) THEN n0 ELSE o.n0

\* the guess a call reads is its own local
Guess(o) == o.n0

\* one pass of the second caller through the loop body, or the end of range(100)
OtherIterate ==
    /\ other.pc = "loop"
    /\ LET x0 == Guess(other)
           dfn == SolverDf(other.design, other.args, x0)
           t1 == RejectionT(other.args.alpha, other.args.two_tailed, dfn)
           t2 == PowerT(other.args.power, dfn)
           m == Combined(other.args.power, t1, t2)
           x1 == Proposal(other.design, other.args, m)
       IN  other' =
             IF ~ LoopBudget(other.rounds) THEN [other EXCEPT !.pc = "after"]
             ELSE IF DfFails(dfn) \/ Converged(x1, x0, other.args.tol)
             THEN [other EXCEPT !.df = dfn, !.rounds = @ + 1, !.pc = "after"]
             ELSE [other EXCEPT !.df = dfn, !.rounds = @ + 1, !.n0 = Damped(x1, x0)]
    /\ UNCHANGED <<call, design, args, pc, rounds, n0, n1, df, zeroDf, T1, T2, M, exit,
                   outcome, sample_size, err, mde, power_out, ci_pct, printed, caller>>

\* the second caller's  sample_size = ceil(X0) if df > 0 else None; return
OtherFinish ==
    /\ other.pc = "after"
    /\ other' =
         [other EXCEPT
            !.pc = "done",
            !.result =
               IF HasSolution(other.df)
               THEN IF CeilRaises(other.n0)
                    THEN [outcome |-> "raise", value |-> 0, err |-> CeilError(other.n0)]
                    ELSE [outcome |-> "int", value |-> CeilUnits(other.n0.v), err |-> "none"]
               ELSE [outcome |-> "None", value |-> 0, err |-> "none"]]
    /\ UNCHANGED <<call, design, args, pc, rounds, n0, n1, df, zeroDf, T1, T2, M, exit,
                   outcome, sample_size, err, mde, power_out, ci_pct, printed, caller>>

\* the calls of the first caller in a run with two callers
ConcurrentSolverInputs ==
    {Base, [Base EXCEPT !.tol = Zero], [Base EXCEPT !.effect_size = Zero]}

ConcurrentCoreInputs ==
    {[Base EXCEPT !.sse = Fin(sse), !.df = Fin(dfv)] :
        sse \in {-10, 0, 500}, dfv \in {0, 10 * Scale}}

InitConcurrent ==
    /\ \/ InitSolver /\ design \in {"ira1r1", "bira2f1"} /\ args \in ConcurrentSolverInputs
       \/ InitMde /\ args \in ConcurrentCoreInputs
       \/ InitPower /\ args \in ConcurrentCoreInputs
       \/ InitWrapper /\ design = "ira1r1" /\ args = [Base EXCEPT !.N = 16]
    /\ InitLocals
    /\ other \in OtherCalls

\* the steps of the two calls, interleaved in any order
NextConcurrent ==
    \/ Next
    \/ OtherIterate
    \/ OtherFinish

SpecConcurrent == InitConcurrent /\ [][NextConcurrent]_vars

\* ------------------------------------------------------------------------
\* Properties
\* ------------------------------------------------------------------------

Solver == call = "sample_size"

Done == pc = "done"

\* |x - y| < t
Within(x, y, t) == FLt(FAbs(FSub(x, y)), t)

\* the df test of the loop: df < 0 or infinite
DfBad(dfv) == FLt(dfv, Zero) \/ IsInf(dfv)

\* a step that is one pass through the loop body
LoopStep == Solver /\ rounds' = rounds + 1

\* r is x rounded up: r - 1 < x <= r
RoundedUp(r, x) == IsFin(x) /\ (r - 1) * Scale < x.v /\ x.v <= r * Scale

\* the position of a call: it grows with every step and is at most MaxIter + 2
Progress ==
    CASE pc = "loop" -> rounds
      [] pc = "call" -> 0
      [] pc = "after" -> MaxIter + 1
      [] pc = "done" -> MaxIter + 2

\* the number of units N the variance identities are checked for: 1 .. MaxN
MaxN == 3

\* C1: every sample_size_* call ends: it runs at most 100 loop iterations,
\* every step moves it forward along a bounded measure, a call that is not
\* done is in the loop or at the statements after it, and when it is done it
\* has an outcome (a value or an exception).
C1_Terminates ==
    /\ [](Solver => /\ rounds <= MaxIter
                    /\ Progress \in 0 .. MaxIter + 2
                    /\ (~ Done => pc \in {"loop", "after"})
                    /\ (Done => outcome # "pending"))
    /\ [][Solver => Progress' > Progress]_vars

C1_Witness == Solver /\ Done /\ exit = "exhausted" /\ rounds = MaxIter /\ outcome = "int"

\* C2 (as claimed): when the loop is left at the df check (df < 0 or df
\* infinite), the result is None: no integer and no exception.
C2_DfCheckGivesNone == (Solver /\ Done /\ exit = "dfcheck") => outcome = "None"

C2_Witness ==
    /\ Solver /\ Done /\ exit = "dfcheck" /\ df = PosInf
    /\ outcome = "raise" /\ err = "OverflowError"

\* C3: a call in which some iteration computed df = 0 returns None.
C3_ZeroDfGivesNone == (Solver /\ Done /\ zeroDf) => outcome = "None"

C3_Witness == Solver /\ Done /\ zeroDf /\ outcome = "None" /\ FGt(args.x0, Zero)

\* C4 (as claimed): when the loop has ended, the result is the guess rounded up
\* if the last computed df is > 0, and None otherwise.
C4_CeilIffPositiveDf ==
    (Solver /\ Done) =>
        IF FGt(df, Zero)
        THEN outcome = "int" /\ RoundedUp(sample_size, n0)
        ELSE outcome = "None"

C4_Witness == Solver /\ Done /\ FGt(df, Zero) /\ outcome # "int" /\ rounds = 2

\* C5: an integer that a sample_size_* call returns is >= 1, and from a
\* positive initial guess the guess never becomes zero or negative (it is
\* positive, or nan after a df of 0 or a 0/0).
C5_PositiveResult ==
    Solver =>
        /\ (outcome = "int" => sample_size >= 1)
        /\ (FGt(args.x0, Zero) => ~ FLe(n0, Zero))

C5_Witness == Solver /\ Done /\ outcome = "int" /\ sample_size >= 1 /\ rounds > 1

\* C6: an iteration whose proposal is within tol of the guess ends the loop
\* with the guess unchanged; after it no iteration runs and the guess stays;
\* the accepted guess is within tol of that iteration's proposal.
C6_StopsAtConvergence ==
    /\ [][(LoopStep /\ ~ DfBad(df') /\ Within(n1', n0, args.tol))
            => (pc' = "after" /\ exit' = "converged" /\ n0' = n0)]_vars
    /\ [][exit = "converged" => (rounds' = rounds /\ n0' = n0 /\ n1' = n1)]_vars
    /\ [](exit = "converged" => Within(n1, n0, args.tol))

C6_Witness == Solver /\ Done /\ exit = "converged" /\ rounds > 1 /\ outcome = "int"

\* the value m lies between a and b when they are finite
Between(m, a, b) ==
    (IsFin(a) /\ IsFin(b)) =>
        /\ IsFin(m)
        /\ (IF a.v < b.v THEN a.v ELSE b.v) <= m.v
        /\ m.v <= (IF a.v < b.v THEN b.v ELSE a.v)

\* C7: an iteration that neither fails the df check nor converges replaces
\* the guess by the average of the proposal and the old guess, which lies
\* between the two, and the loop goes on.
C7_Damping ==
    [][(LoopStep /\ ~ DfBad(df') /\ ~ Within(n1', n0, args.tol))
         => (n0' = FAvg(n1', n0) /\ Between(n0', n0, n1') /\ pc' = "loop")]_vars

C7_Witness ==
    /\ Solver /\ pc = "loop" /\ rounds > 0
    /\ IsFin(n0) /\ IsFin(n1) /\ n0 # n1 /\ n0 # args.x0

\* C8: the loop is exhausted after exactly 100 iterations; the guess is not
\* touched after the loop; and if the last df is > 0 the call returns that
\* guess rounded up.
C8_ExhaustionReturnsCeil ==
    /\ []((Solver /\ exit = "exhausted") => rounds = MaxIter)
    /\ [][(Solver /\ pc # "loop") => n0' = n0]_vars
    /\ []((Solver /\ Done /\ exit = "exhausted" /\ FGt(df, Zero))
            => (outcome = "int" /\ RoundedUp(sample_size, n0)))

C8_Witness ==
    Solver /\ Done /\ exit = "exhausted" /\ FGt(df, Zero) /\ outcome = "int" /\ n0 # args.x0

\* the proposal from a combined critical value m and a variance v
FromVariance(m, v) == FMul(FSq(FDiv(m, args.effect_size)), RatToFix(v))

\* the combined critical value at df dfv for the call's alpha, tail mode and
\* target power
CriticalAt(dfv) ==
    LET t1 == IF args.two_tailed
              THEN FAbs(PPF(FDiv(args.alpha, FInt(2)), dfv))
              ELSE FAbs(PPF(args.alpha, dfv))
        t2 == FAbs(PPF(args.power, dfv))
    IN  IF args.power.v >= Scale \div 2 THEN FAdd(t1, t2) ELSE FSub(t1, t2)

\* C9: the proposal is (M / effect_size)^2 times the design variance, M the
\* combined critical value at the df of the guess (df, M and the proposal
\* belong to the same iteration unless the loop was left at the df check),
\* and the design variance is sse(N)^2 * N of the design's mde_ and power_
\* wrapper, for every N.
C9_ProposalUsesEstimatorVariance ==
    (Solver /\ n1 # Unset) =>
        /\ exit # "dfcheck" => M = CriticalAt(df)
        /\ n1 = FromVariance(M, RMul(MdeSseSq(design, args, 1), RInt(1)))
        /\ rounds = 1 =>
             \A N \in 1 .. MaxN :
                /\ n1 = FromVariance(M, RMul(MdeSseSq(design, args, N), RInt(N)))
                /\ n1 = FromVariance(M, RMul(PowerSseSq(design, args, N), RInt(N)))
                /\ MdeSseSq(design, args, N) = PowerSseSq(design, args, N)

C9_Witness ==
    /\ Solver /\ design = "bcra3r2" /\ rounds = 1
    /\ IsFin(n1) /\ n1.v > 0 /\ args.p = Rat(1, 4)

\* C10: _mde raises ValueError, and returns nothing, exactly when sse < 0 or
\* df < 1, whatever power, alpha and two_tailed are; otherwise it returns its
\* dictionary.
C10_MdeDomainError ==
    (call = "mde" /\ Done) =>
        /\ (FLt(args.sse, Zero) \/ FLt(args.df, FInt(1)))
             <=> (outcome = "raise" /\ err = "ValueError")
        /\ outcome = "raise" => mde = NoDict
        /\ outcome # "raise" => (outcome = "dict" /\ mde # NoDict)

C10_Witness ==
    /\ call = "mde" /\ Done /\ outcome = "raise"
    /\ args.df = Zero /\ ~ FLt(args.sse, Zero)

\* C11: _power raises ValueError, and returns no value, whenever sse < 0 or
\* df < 1, whatever effect_size, alpha and two_tailed are: the checks _mde
\* applies; and it raises ValueError in no other case.
C11_PowerDomainError ==
    (call = "power" /\ Done) =>
        /\ (FLt(args.sse, Zero) \/ FLt(args.df, FInt(1)))
             <=> (outcome = "raise" /\ err = "ValueError")
        /\ (SseInvalid(args.sse) \/ DfInvalid(args.df))
             <=> (outcome = "raise" /\ err = "ValueError")
        /\ outcome = "raise" => power_out = Unset

C11_Witness ==
    /\ call = "power" /\ Done /\ outcome = "raise" /\ err = "ValueError"
    /\ args.sse = Fin(-10) /\ args.df = FInt(10) /\ ~ args.two_tailed

\* a call of _mde or _power that passed both domain checks
PassedChecks == ~ FLt(args.sse, Zero) /\ ~ FLt(args.df, FInt(1))

\* C12 (as claimed): with sse = 0 and df >= 1 _power completes with a value,
\* and with M = 0 _mde completes with its dictionary.
C12_DegenerateCompletes ==
    /\ (call = "power" /\ Done /\ PassedChecks /\ args.sse = Zero) => outcome = "float"
    /\ (call = "mde" /\ Done /\ PassedChecks /\ M = Zero) => outcome = "dict"

\* C12 (amended): sse = 0 with df >= 1 passes _power's domain checks (no
\* ValueError), and the unguarded division effect_size / sse then raises
\* ZeroDivisionError, so the call returns no value; M = 0 in _mde is not
\* raised: the call returns its dictionary, with both bounds nan.
C12_DegenerateUnguarded ==
    /\ (call = "power" /\ Done /\ PassedChecks /\ args.sse = Zero)
         => (outcome = "raise" /\ err = "ZeroDivisionError" /\ power_out = Unset)
    /\ (call = "mde" /\ Done /\ PassedChecks /\ M = Zero)
         => (outcome = "dict" /\ IsNaN(mde.lower_bound) /\ IsNaN(mde.upper_bound))

C12_Witness ==
    /\ call = "power" /\ Done /\ args.sse = Zero /\ args.df = FInt(10)
    /\ args.effect_size = Fin(250) /\ err = "ZeroDivisionError"

\* a call of _mde that met M = 0
C12_WitnessMde == call = "mde" /\ Done /\ outcome = "dict" /\ M = Zero /\ args.sse = Fin(500)

\* C13: in _mde and in every solver iteration, T1 = |quantile(alpha / 2, df)|
\* if two_tailed else |quantile(alpha, df)|, T2 = |quantile(power, df)|, and
\* M = T1 + T2 when power >= 0.5, M = T1 - T2 when power < 0.5; at
\* power = 0.5 the quantile is 0 (nan only where df is outside the
\* distribution's domain), so the two branches agree.
C13_CombinedCriticalValue ==
    ((call = "mde" /\ Done /\ outcome = "dict") \/ (Solver /\ n1 # Unset /\ exit # "dfcheck")) =>
        /\ T1 = FAbs(PPF(IF args.two_tailed THEN FDiv(args.alpha, FInt(2)) ELSE args.alpha, df))
        /\ T2 = FAbs(PPF(args.power, df))
        /\ M = IF args.power.v >= Scale \div 2 THEN FAdd(T1, T2) ELSE FSub(T1, T2)
        /\ args.power = Fin(Scale \div 2) =>
             /\ FAdd(T1, T2) = FSub(T1, T2)
             /\ FGt(df, Zero) => (T2 = Zero /\ M = T1)

C13_Witness ==
    /\ Solver /\ rounds > 1 /\ args.power = Fin(Scale \div 2)
    /\ T2 = Zero /\ IsFin(M) /\ M = T1 /\ FGt(M, Zero)

\* a call of _mde on the T1 - T2 branch
C13_WitnessMde ==
    /\ call = "mde" /\ Done /\ outcome = "dict" /\ args.power = Fin(200)
    /\ FGt(T2, Zero) /\ M = FSub(T1, T2)

\* C14: a call of _mde that passes the checks returns
\* minimum_detectable_effect = M * sse, lower = mde * (1 - T1 / M) and
\* upper = mde * (1 + T1 / M); the call changes nothing but its own result:
\* its arguments stay as they are and nothing is printed.
C14_MdeFormula ==
    /\ []((call = "mde" /\ Done /\ outcome = "dict") =>
            /\ mde.minimum_detectable_effect = FMul(M, args.sse)
            /\ mde.lower_bound
                 = FMul(mde.minimum_detectable_effect, FSub(FInt(1), FDiv(T1, M)))
            /\ mde.upper_bound
                 = FMul(mde.minimum_detectable_effect, FAdd(FInt(1), FDiv(T1, M))))
    /\ [][(call = "mde" /\ pc = "call") =>
            (args' = args /\ call' = call /\ printed' = printed /\ ~ printed'
             /\ sample_size' = sample_size /\ power_out' = power_out)]_vars

C14_Witness ==
    /\ call = "mde" /\ Done /\ outcome = "dict" /\ args.sse = Fin(500)
    /\ args.power = Fin(800) /\ args.df = FInt(10)
    /\ IsFin(mde.lower_bound) /\ IsFin(mde.upper_bound)
    /\ FLt(Zero, mde.lower_bound)
    /\ FLt(mde.lower_bound, mde.minimum_detectable_effect)
    /\ FLt(mde.minimum_detectable_effect, mde.upper_bound)

\* a call of _mde that returned, with 0 < alpha < 1 and 0 < power < 1
MdeReturned ==
    /\ call = "mde" /\ Done /\ outcome = "dict"
    /\ FLt(Zero, args.alpha) /\ FLt(args.alpha, FInt(1))
    /\ FLt(Zero, args.power) /\ FLt(args.power, FInt(1))

\* C15 (as claimed): for sse > 0, df >= 1, 0 < alpha < 1 and 0 < power < 1,
\* in both tail modes, minimum_detectable_effect is strictly greater than 0.
C15_MdePositive ==
    (MdeReturned /\ FGt(args.sse, Zero)) => FGt(mde.minimum_detectable_effect, Zero)

\* a target power below the rejection tail probability: M < 0 and a negative
\* minimum detectable effect
C15_Witness ==
    /\ MdeReturned /\ args.sse = Fin(500) /\ args.df = FInt(10)
    /\ args.power = Fin(10) /\ args.alpha = Fin(50) /\ args.two_tailed
    /\ FLt(M, Zero) /\ FLt(mde.minimum_detectable_effect, Zero)

\* C16 (as claimed): for sse >= 0, df >= 1, 0 < alpha < 1 and 0 < power < 1
\* the lower bound of the interval is strictly less than the upper bound,
\* also for sse = 0 and for M = 0.
C16_IntervalOrdered ==
    MdeReturned => FLt(mde.lower_bound, mde.upper_bound)

\* M = 0: both bounds are nan
C16_Witness ==
    /\ MdeReturned /\ args.sse = Fin(500) /\ args.df = FInt(10)
    /\ args.power = Fin(25) /\ args.alpha = Fin(50) /\ args.two_tailed
    /\ M = Zero /\ IsNaN(mde.lower_bound) /\ IsNaN(mde.upper_bound)

\* sse = 0 with M > 0: both bounds are 0
C16_WitnessZeroSse ==
    /\ MdeReturned /\ args.sse = Zero /\ FGt(M, Zero)
    /\ mde.lower_bound = Zero /\ mde.upper_bound = Zero

\* the distance of the upper bound from the point estimate
UpperArm == FSub(mde.upper_bound, mde.minimum_detectable_effect)

\* the distance of the point estimate from the lower bound
LowerArm == FSub(mde.minimum_detectable_effect, mde.lower_bound)

\* rounding allowance, in units: mde and the ratio T1 / M are each truncated
\* to a unit before they are multiplied, and the product is truncated again
ArmSlack ==
    Mag(mde.minimum_detectable_effect.v) \div Scale + Mag(FDiv(T1, M).v) \div Scale + 2

\* C17 (as claimed): the interval is not symmetric about the point estimate:
\* upper - mde differs from mde - lower.
C17_IntervalAsymmetric ==
    (MdeReturned /\ FGt(args.sse, Zero) /\ M # Zero) => UpperArm # LowerArm

\* C17 (amended): the interval is symmetric about the point estimate:
\* upper - mde and mde - lower are equal up to rounding (one unit), and both
\* are T1 * sse up to rounding, the classical half-width, however M scales
\* the ratio T1 / M.
C17_IntervalSymmetric ==
    (MdeReturned /\ FGt(args.sse, Zero) /\ M # Zero) =>
        /\ IsFin(UpperArm) /\ IsFin(LowerArm)
        /\ Mag(UpperArm.v - LowerArm.v) <= 1
        /\ Mag(UpperArm.v - FMul(T1, args.sse).v) <= ArmSlack
        /\ Mag(LowerArm.v - FMul(T1, args.sse).v) <= ArmSlack

C17_Witness ==
    /\ MdeReturned /\ args.sse = Fin(500) /\ args.df = FInt(10)
    /\ args.power = Fin(800) /\ args.alpha = Fin(50) /\ args.two_tailed
    /\ FGt(UpperArm, Fin(Scale)) /\ Mag(UpperArm.v - LowerArm.v) <= 1

\* round((1 - alpha) * 100) for alpha in units: the nearest integer, a tie
\* going to the even one (0.025 gives 98 and 0.005 gives 100, as rounding a
\* tie upwards also does)
ClaimedPct(m) ==
    LET x == Scale - m
        lo == x \div 10
    IN  IF x % 10 > 5 \/ (x % 10 = 5 /\ lo % 2 = 1) THEN lo + 1 ELSE lo

\* C18 (as claimed): the dictionary _mde returns has the key
\* minimum_detectable_effect and the key "<pct>% Confidence Interval" with
\* pct = round((1 - alpha) * 100), for every alpha in (0, 1).
C18_KeyIsRoundedLevel ==
    MdeReturned => (mde # NoDict /\ ci_pct = ClaimedPct(args.alpha.v))

\* alpha = 0.34, a multiple of 0.01: the key says 65, not 66
C18_Witness == MdeReturned /\ args.alpha = Fin(340) /\ ci_pct = 65

\* alpha = 0.025: the key says 97, not 98
C18_WitnessTie == MdeReturned /\ args.alpha = Fin(25) /\ ci_pct = 97

\* alpha = 0.05: the key says 95
C18_WitnessUsual == MdeReturned /\ args.alpha = Fin(50) /\ ci_pct = 95

\* a finished call of _power at the effect size _mde reported for args.power
RoundTrip == call = "power" /\ Done /\ mde # NoDict /\ FGt(args.sse, Zero)

\* the tolerance of the round trip, 0.005
RoundTripTol == Scale \div 200

\* the distance of the power found from the power asked for
RoundTripError == Mag(power_out.v - args.power.v)

C19_WitnessSmallDf ==
    /\ RoundTrip /\ args.df = FInt(1) /\ args.alpha = Fin(50) /\ args.two_tailed
    /\ args.power = Fin(800) /\ args.sse = Fin(500)
    /\ outcome = "float" /\ RoundTripError > 10 * RoundTripTol

\* the solver has finished a call made at the effect size mde_<design>
\* reported for args.N units
RoundTripUnits == call = "sample_size" /\ Done /\ mde # NoDict

\* C20 (as claimed): called at the effect size mde_<design> reports for N units,
\* with the default initial guess and tolerance, sample_size_<design> converges
\* and returns an integer within 1 of N.
C20_SolverInvertsEstimator ==
    RoundTripUnits =>
        /\ exit = "converged"
        /\ outcome = "int"
        /\ sample_size \in args.N - 1 .. args.N + 1

\* C20 (amended): when mde_<design> had df >= 10 for its N units (power 0.8,
\* alpha 0.05 or 0.10, either tail mode, at most 3 covariates),
\* sample_size_<design> called at the reported effect size with the default
\* initial guess and tolerance converges and returns an integer within 1 of N.
C20_SolverInvertsEstimatorFromDf10 ==
    (RoundTripUnits /\ FLe(FInt(10), args.df) /\ args.g <= 3) =>
        /\ exit = "converged"
        /\ outcome = "int"
        /\ sample_size \in args.N - 1 .. args.N + 1

\* a round trip that gives N back
C20_Witness ==
    /\ RoundTripUnits
    /\ FLe(FInt(10), args.df)
    /\ design = "ira1r1"
    /\ args.N = 16
    /\ exit = "converged"
    /\ rounds > 1
    /\ sample_size = 16

\* a round trip from df = 1 of the estimator that uses up the iterations
C20_WitnessDf1 ==
    /\ RoundTripUnits
    /\ args.df = FInt(1)
    /\ exit = "exhausted"
    /\ outcome = "int"

\* target powers and effect sizes a second call is made with
PowerLevels == {Fin(10), Fin(50), Fin(200), Fin(500), Fin(800)}

EffectLevels == {Fin(250), Fin(500), FInt(1)}

\* the integer results of the same call with one argument raised
RaisedPower ==
    {r.value : r \in {q \in {SampleSize(design, [args EXCEPT !.power = pw]) :
                                 pw \in {x \in PowerLevels : FLt(args.power, x)}} :
                       q.outcome = "int"}}

RaisedEffect ==
    {r.value : r \in {q \in {SampleSize(design, [args EXCEPT !.effect_size = es]) :
                                 es \in {x \in EffectLevels : FLt(args.effect_size, x)}} :
                       q.outcome = "int"}}

\* C21 (as claimed): with every other argument fixed, an integer result of
\* sample_size_<design> does not fall when the target power rises and does not
\* rise when effect_size rises.
C21_SampleSizeMonotone ==
    (Solver /\ Done /\ outcome = "int") =>
        /\ \A v \in RaisedPower : sample_size <= v
        /\ \A v \in RaisedEffect : v <= sample_size

\* sample_size_ira1r1(effect_size=0.25, power=0.01, alpha=0.05) gives more
\* units than the same call with power=0.05
C21_Witness ==
    /\ Solver /\ Done /\ outcome = "int"
    /\ design = "ira1r1"
    /\ args = [Base EXCEPT !.power = Fin(10)]
    /\ LET r == SampleSize(design, [args EXCEPT !.power = Fin(50)])
       IN  r.outcome = "int" /\ r.value < sample_size

\* _power has returned a number
PowerReturned == call = "power" /\ Done /\ outcome = "float"

\* _power has returned a number for an alpha of the comparison
PowerCompared == PowerReturned /\ args.alpha \in {Fin(50), Fin(100)}

\* the arguments a second call of _power raises
PowerEffects == {Fin(0 - 1400), Fin(0 - 250), Zero, Fin(250), Fin(1400)}

\* df from 10 up, where the normal approximation of nct.cdf is right to 0.002
PowerDfs == {FInt(10), FInt(30), FInt(210)}

PowerAlphas == {Fin(50), Fin(100)}

\* the results of the same call with one argument raised
PowerAtRaisedEffect ==
    {PowerValue([args EXCEPT !.effect_size = es]) :
        es \in {x \in PowerEffects : FLt(args.effect_size, x)}}

PowerAtRaisedDf ==
    {PowerValue([args EXCEPT !.df = d]) :
        d \in {x \in PowerDfs : FLt(args.df, x) /\ args.df \in PowerDfs}}

PowerAtRaisedAlpha ==
    {PowerValue([args EXCEPT !.alpha = al]) : al \in {x \in PowerAlphas : FLt(args.alpha, x)}}

\* power_out is at most every member of S
NotAbove(S) == \A v \in S : FLe(power_out, v)

\* C22 (as claimed): with every other argument fixed, sse > 0 and df >= 1, the
\* power does not fall when effect_size rises, when df rises or when alpha
\* rises.
C22_PowerMonotone ==
    PowerCompared =>
        NotAbove(PowerAtRaisedEffect) /\ NotAbove(PowerAtRaisedDf) /\ NotAbove(PowerAtRaisedAlpha)

\* C22 (amended): the same for effect_size >= 0.
C22_PowerMonotoneNonNegativeEffect ==
    (PowerCompared /\ FLe(Zero, args.effect_size)) =>
        NotAbove(PowerAtRaisedEffect) /\ NotAbove(PowerAtRaisedDf) /\ NotAbove(PowerAtRaisedAlpha)

\* a call with a positive effect size whose power is strictly below that of the
\* calls with a larger effect size, a larger df and a larger alpha
C22_Witness ==
    /\ PowerCompared
    /\ args.effect_size = Fin(250)
    /\ args.df = FInt(10)
    /\ args.alpha = Fin(50)
    /\ \E v \in PowerAtRaisedEffect : FLt(power_out, v)
    /\ \E v \in PowerAtRaisedDf : FLt(power_out, v)
    /\ \E v \in PowerAtRaisedAlpha : FLt(power_out, v)

\* a two-tailed call with a negative effect size has more power than the same
\* call with effect size 0
C22_WitnessNegativeEffect ==
    /\ PowerCompared
    /\ args.two_tailed
    /\ args.effect_size = Fin(0 - 1400)
    /\ FLt(PowerValue([args EXCEPT !.effect_size = Zero]), power_out)

\* what the first caller's finished call gave back
Returned ==
    [outcome |-> outcome,
     value |-> CASE call = "sample_size" -> sample_size
                 [] call = "mde" -> mde
                 [] OTHER -> power_out,
     err |-> err]

\* what the first caller's call gives back when it runs alone
Alone ==
    CASE call = "sample_size" -> SampleSize(design, args)
      [] call = "mde" -> Mde(args)
      [] OTHER -> Power(args)

\* C23: when the steps of two calls are interleaved in any order, each call
\* gives back what it gives back when run alone.
C23_InterleavingIndependent ==
    /\ (Done /\ call \in {"sample_size", "mde", "power"}) => Returned = Alone
    /\ other.pc = "done" => other.result = SampleSize(other.design, other.args)

\* both callers have finished solver calls of several iterations each, and the
\* second caller finished while the first was in its loop
C23_Witness ==
    /\ Solver /\ Done /\ rounds > 2 /\ outcome = "int"
    /\ other.pc = "done" /\ other.rounds > 2 /\ other.result.outcome = "int"
    /\ other.design # design
    /\ other.result.value # sample_size

\* the same call with the other value of print_pretty
FlagFlipped == [args EXCEPT !.print_pretty = ~ @]

\* C24: a finished sample_size_<design> call has printed its result line
\* exactly when print_pretty is true, and gives back the same value for both
\* values of print_pretty.
C24_PrintedIffPrintPretty ==
    (Solver /\ Done) =>
        /\ printed <=> args.print_pretty
        /\ SampleSize(design, args) = SampleSize(design, FlagFlipped)

\* sample_size_bira2f1 finished with print_pretty = False and printed J = ...
C24_Witness ==
    /\ Solver /\ Done /\ design = "bira2f1" /\ outcome = "int"
    /\ ~ args.print_pretty /\ printed

\* sample_size_bcra4r3 finished with print_pretty = True and printed nothing
C24_WitnessSilent ==
    /\ Solver /\ Done /\ design = "bcra4r3" /\ outcome = "int"
    /\ args.print_pretty /\ ~ printed

\* C24 for the twelve functions that test the flag: a call that returned has
\* printed exactly when print_pretty is true.
C24_PrintedIffPrintPrettyElsewhere ==
    (Solver /\ Done /\ outcome # "raise" /\ design \notin {"bira2f1", "bcra4r3"}) =>
        /\ printed <=> args.print_pretty
        /\ SampleSize(design, args) = SampleSize(design, FlagFlipped)

\* 1 - F(c(a)): the probability of the upper rejection region at level a
UpperRejection(a, dfv, lamda) == FSub(FInt(1), NctCdf(ISF(a, dfv), dfv, lamda))

\* F(-c(a)): the probability of the lower rejection region at level a
LowerRejection(a, dfv, lamda) == NctCdf(FNeg(ISF(a, dfv)), dfv, lamda)

\* effect_size / sse of the finished call
Noncentrality == FDiv(args.effect_size, args.sse)

\* the same call of _power one-tailed at alpha / 2
OneTailedAtHalf == [args EXCEPT !.two_tailed = FALSE, !.alpha = FDiv(args.alpha, FInt(2))]

\* C25: one-tailed power is 1 - F(c(alpha)); two-tailed power is
\* 1 - F(c(alpha/2)) + F(-c(alpha/2)), the one-tailed power at alpha/2 plus
\* the lower rejection probability, and never less than the one-tailed power
\* at alpha/2.
C25_PowerFormula ==
    PowerReturned =>
        IF args.two_tailed
        THEN LET half == FDiv(args.alpha, FInt(2))
             IN  /\ power_out = FAdd(UpperRejection(half, args.df, Noncentrality),
                                     LowerRejection(half, args.df, Noncentrality))
                 /\ Power(OneTailedAtHalf).outcome = "float"
                 /\ Power(OneTailedAtHalf).value = UpperRejection(half, args.df, Noncentrality)
                 /\ FLe(Power(OneTailedAtHalf).value, power_out)
                 /\ FLe(Zero, LowerRejection(half, args.df, Noncentrality))
        ELSE power_out = UpperRejection(args.alpha, args.df, Noncentrality)

\* a two-tailed call whose lower rejection region carries most of the power
C25_Witness ==
    /\ PowerReturned /\ args.two_tailed /\ args.effect_size = Fin(0 - 1400)
    /\ args.sse = Fin(500) /\ args.df = FInt(10) /\ args.alpha = Fin(50)
    /\ FLt(Power(OneTailedAtHalf).value, Fin(25))
    /\ FLt(Fin(500), power_out)

\* a one-tailed call
C25_WitnessOneTailed ==
    /\ PowerReturned /\ ~ args.two_tailed /\ args.effect_size = Fin(1400)
    /\ args.sse = Fin(500) /\ args.df = FInt(10) /\ args.alpha = Fin(50)
    /\ FLt(Fin(500), power_out) /\ FLt(power_out, FInt(1))

\* a call of mde_<design> or power_<design> in which the core routine raised
WrapperRaised ==
    /\ outcome = "raise"
    /\ caller # "none" \/ call \in {"mde_design", "power_design"}

\* C26: when the sse and df a wrapper derived fail the domain check of the
\* core routine, the ValueError leaves the wrapper as it was raised: the
\* wrapper runs no further statement, prints nothing and returns nothing,
\* also with print_pretty = True.
C26_WrapperErrorPropagates ==
    /\ []((WrapperRaised /\ (SseInvalid(args.sse) \/ DfInvalid(args.df))) =>
            /\ err = "ValueError"
            /\ caller \in {"mde_design", "power_design"}
            /\ ~ printed
            /\ mde = NoDict
            /\ power_out = Unset)
    /\ [][~ WrapperRaised]_vars

\* mde_ira1r1(n = 2) with print_pretty = True: df = 0 and _mde raised
C26_Witness ==
    /\ WrapperRaised /\ caller = "mde_design" /\ design = "ira1r1" /\ args.N = 2
    /\ args.df = Zero /\ args.print_pretty /\ FGt(args.sse, Zero)
    /\ err = "ValueError" /\ ~ printed

\* power_cra2r2(J = 2, g2 = 2) with print_pretty = True: df = -2 and _power
\* raised
C26_WitnessPower ==
    /\ WrapperRaised /\ caller = "power_design" /\ design = "cra2r2" /\ args.N = 2
    /\ FLt(args.df, Zero) /\ args.print_pretty
    /\ err = "ValueError" /\ ~ printed

\* a wrapper that returned with print_pretty = True has printed
C26_WitnessPrinted ==
    /\ call = "power_design" /\ pc = "done" /\ outcome = "float" /\ printed

\* a wrapper has derived df and sse from its design parameters
WrapperDerived ==
    \/ caller \in {"mde_design", "power_design"}
    \/ call \in {"mde_design", "power_design"} /\ pc = "done"

\* C27: the df a wrapper derives from N units is the df the solver of the
\* same design computes at the guess N.
C27_SameDfFormula ==
    WrapperDerived => args.df = SolverDf(design, args, FInt(args.N))

\* mde_ira1r1(n = 16) passes df = 14; sample_size_ira1r1 computes df = 15 at
\* the guess 16
C27_Witness ==
    /\ WrapperDerived /\ caller = "mde_design" /\ design = "ira1r1"
    /\ args.N = 16 /\ args.g = 0
    /\ args.df = FInt(14)
    /\ SolverDf(design, args, FInt(args.N)) = FInt(15)

\* C27 for the thirteen other designs
C27_SameDfFormulaOtherDesigns ==
    (WrapperDerived /\ design # "ira1r1") => args.df = SolverDf(design, args, FInt(args.N))

DfAtFinalGuess == SolverDf(design, args, n0)

C29_ConvergedGuessHasPositiveDf ==
    (Solver /\ Done /\ outcome = "int" /\ exit = "converged") =>
        (DfAtFinalGuess = df /\ FGt(df, Zero))

\* an exhausted loop returned an integer at a guess with df > 0
C29_WitnessExhausted ==
    /\ Solver /\ Done /\ outcome = "int" /\ exit = "exhausted"
    /\ n0 # args.x0 /\ FGt(DfAtFinalGuess, Zero)

\* a converged loop returned an integer
C29_WitnessConverged ==
    /\ Solver /\ Done /\ outcome = "int" /\ exit = "converged"
    /\ DfAtFinalGuess = df /\ FGt(df, Zero)

\* the finished call was preceded by another call
AfterEarlierCall ==
    /\ Done
    /\ \/ call = "power" /\ caller = "none" /\ mde # NoDict
       \/ call = "sample_size" /\ mde # NoDict

\* C30: what a finished call of _mde, _power or sample_size_<design> gives
\* back (value, None or exception) is a function of its arguments, whether
\* or not other calls ran before it.
C30_Deterministic ==
    /\ (Done /\ call \in {"sample_size", "mde", "power"}) => Returned = Alone
    /\ AfterEarlierCall =>
         /\ call = "sample_size" =>
               [outcome |-> outcome, value |-> sample_size, err |-> err]
                  = SampleSize(design, args)
         /\ call = "power" =>
               [outcome |-> outcome, value |-> power_out, err |-> err] = Power(args)

\* sample_size_<design> finished after an mde_<design> call with other units
C30_Witness ==
    /\ AfterEarlierCall /\ call = "sample_size" /\ outcome = "int"
    /\ args.N = 5 /\ sample_size # args.N /\ rounds > 1

\* _power finished after a _mde call
C30_WitnessPower ==
    /\ AfterEarlierCall /\ call = "power" /\ outcome = "float"
    /\ design = "none" /\ FGt(power_out, Zero)

====
